---- MODULE Spec2Model ----
(***************************************************************************)
(* Model of elections-geo (main.py): the ElectionGeo aggregation of        *)
(* per-district results into the regions "abroad", "tbilisi" and "other",  *)
(* the electoral threshold, the query methods and ElectionGeoPrinter; and  *)
(* of convert.py, which writes the JSON files of 2020 and 2024 as CSV.     *)
(*                                                                         *)
(* Python dicts are functions (DOMAIN = keys), lists are sequences.        *)
(* Percentages are counted in hundredths of a percent (51.11 is 5111); a   *)
(* float obtained by division is kept as an exact fraction [num, den].     *)
(* The float arithmetic of the threshold is modelled bit by bit (IEEE      *)
(* binary64, round to nearest even) because math.ceil turns its rounding   *)
(* into a different integer.                                               *)
(***************************************************************************)
EXTENDS Integers, Sequences, FiniteSets, TLC

VARIABLES year, type, file, details, status, runs,
          party_name_by_number,
          vote_pcts_by_number, vote_pcts_by_number_avg,
          vote_counts_by_number, vote_counts_by_number_sum,
          vote_counts_by_number_sum_all,
          party_numbers_pass_electoral_threshold,
          min_votes_required,
          query,
          threshold_in, threshold_out,
          election_geo_objs, printed,
          convert_pc, convert_data, convert_row, convert_csv

vars == <<year, type, file, details, status, runs, party_name_by_number,
          vote_pcts_by_number, vote_pcts_by_number_avg,
          vote_counts_by_number, vote_counts_by_number_sum,
          vote_counts_by_number_sum_all,
          party_numbers_pass_electoral_threshold, min_votes_required,
          query, threshold_in, threshold_out, election_geo_objs, printed,
          convert_pc, convert_data, convert_row, convert_csv>>

\* the module-level state of convert.py
convert_vars == <<convert_pc, convert_data, convert_row, convert_csv>>

\* the state of main.py
main_vars == <<year, type, file, details, status, runs, party_name_by_number,
               vote_pcts_by_number, vote_pcts_by_number_avg,
               vote_counts_by_number, vote_counts_by_number_sum,
               vote_counts_by_number_sum_all,
               party_numbers_pass_electoral_threshold, min_votes_required,
               query, threshold_in, threshold_out, election_geo_objs, printed>>

---------------------------------------------------------------------------
(* Bounds *)

\* largest number of districts in one dataset
MaxDistricts == 4

\* largest number of year aggregates handed to the printer
MaxYears == 3

\* largest threshold percentage tried by the pure threshold specification
MaxThreshold == 6

\* largest number of calls of main() on one instance
MaxRuns == 2

\* largest number of districts in a file convert.py converts
MaxItems == 2

---------------------------------------------------------------------------
(* Class constants of ElectionGeo *)

Years == {2012, 2016, 2020, 2024}

Regions == {"abroad", "tbilisi", "other"}

ELECTORAL_THRESHOLDS ==
    [y \in Years |->
        CASE y = 2012 -> [proportional |-> 5, majoritarian |-> 50]
          [] y = 2016 -> [proportional |-> 5, majoritarian |-> 50]
          [] y = 2020 -> [proportional |-> 1, majoritarian |-> 50]
          [] y = 2024 -> [proportional |-> 5]]

ABROAD_DISTRICT ==
    [y \in Years |-> IF y = 2012 THEN "87" ELSE "0"]

\* the keys of the per-year dict (the names are never read)
TBILISI_DISTRICTS ==
    [y \in Years |->
        CASE y = 2012 -> {"1", "2", "3", "4", "5", "6", "7", "8", "9", "10"}
          [] y = 2016 -> {"1", "2", "3", "4", "5", "6", "7", "8", "9", "10",
                          "11", "12", "13", "14", "15", "16", "17", "18",
                          "19", "20", "21", "22"}
          [] y = 2020 -> {"1", "2", "3", "4", "5", "6", "7", "8"}
          [] y = 2024 -> {"01", "02", "03", "04", "05", "06", "07", "08",
                          "09", "10"}]

---------------------------------------------------------------------------
(* Python built-ins used by the code *)

\* int(s) for the number strings that occur
int(s) ==
    CASE s = "0" -> 0 [] s = "1" -> 1 [] s = "5" -> 5 [] s = "10" -> 10
      [] s = "12" -> 12 [] s = "30" -> 30 [] s = "41" -> 41 [] s = "87" -> 87
      [] s = "01" -> 1

\* list(s) of a string: its characters
list(s) ==
    CASE s = "0" -> <<"0">>
      [] s = "87" -> <<"8", "7">>

Range(seq) == {seq[i] : i \in 1..Len(seq)}

\* str.lower() of a string given as the sequence of its characters
lower(s) ==
    [i \in 1..Len(s) |->
        CASE s[i] = "J" -> "j" [] s[i] = "S" -> "s" [] s[i] = "O" -> "o"
          [] s[i] = "N" -> "n" [] s[i] = "C" -> "c" [] s[i] = "V" -> "v"
          [] s[i] = "A" -> "a" [] s[i] = "T" -> "t" [] s[i] = "X" -> "x"
          [] OTHER -> s[i]]

\* str.endswith(suffix)
endswith(s, suffix) ==
    /\ Len(s) >= Len(suffix)
    /\ SubSeq(s, Len(s) - Len(suffix) + 1, Len(s)) = suffix

RECURSIVE sum(_)
sum(seq) == IF seq = <<>> THEN 0 ELSE seq[1] + sum(Tail(seq))

\* insert s into a sequence sorted by int, after the equal keys (stable)
RECURSIVE InsertByInt(_, _)
InsertByInt(s, sorted_seq) ==
    IF sorted_seq = <<>> THEN <<s>>
    ELSE IF int(s) < int(sorted_seq[1]) THEN <<s>> \o sorted_seq
    ELSE <<sorted_seq[1]>> \o InsertByInt(s, Tail(sorted_seq))

\* sorted(seq, key=int)
RECURSIVE sorted(_)
sorted(seq) ==
    IF seq = <<>> THEN <<>>
    ELSE InsertByInt(seq[Len(seq)], sorted(SubSeq(seq, 1, Len(seq) - 1)))

\* sorted(d.keys(), key=int) for a dict whose keys have distinct int values
RECURSIVE SetToSortedSeq(_)
SetToSortedSeq(S) ==
    IF S = {} THEN <<>>
    ELSE LET m == CHOOSE x \in S : \A z \in S : int(x) <= int(z)
         IN  <<m>> \o SetToSortedSeq(S \ {m})

EmptyDict == [k \in {} |-> 0]

EmptyByRegion == [r \in Regions |-> EmptyDict]

\* d[k] = v
Put(d, k, v) == [x \in (DOMAIN d) \cup {k} |-> IF x = k THEN v ELSE d[x]]

---------------------------------------------------------------------------
(* Python float (IEEE binary64) arithmetic of line 299.  A float is         *)
(* [m, e]: m the significand as a sequence of bits, most significant       *)
(* first and without leading zeros, e the exponent of its last bit; the    *)
(* value is m * 2^e, and 0.0 has the empty significand.                    *)

\* bits of the significand of a Python float
PRECISION == 53

\* bits produced by one step of the long division and of the multiplication
CHUNK == 16

Zeros(n) == [i \in 1..n |-> 0]

\* b with zero bits in front, up to the width w
Pad(b, w) == Zeros(w - Len(b)) \o b

\* the bits of n, without leading zeros
NatToBits(n) ==
    LET w == CHOOSE k \in 0..30 : n < 2^k /\ (k = 0 \/ n >= 2^(k - 1))
    IN  [i \in 1..w |-> (n \div 2^(w - i)) % 2]

RECURSIVE BitsToNat(_)
BitsToNat(b) ==
    IF b = <<>> THEN 0
    ELSE IF Len(b) = 1 THEN b[1]
    ELSE LET h == Len(b) \div 2
         IN  BitsToNat(SubSeq(b, 1, h)) * 2^(Len(b) - h)
             + BitsToNat(SubSeq(b, h + 1, Len(b)))

\* b + 1
BitsInc(b) ==
    IF \A i \in 1..Len(b) : b[i] = 1 THEN <<1>> \o Zeros(Len(b))
    ELSE LET j == CHOOSE i \in 1..Len(b) :
                      b[i] = 0 /\ \A l \in (i + 1)..Len(b) : b[l] = 1
         IN  [i \in 1..Len(b) |-> IF i < j THEN b[i] ELSE IF i = j THEN 1 ELSE 0]

\* the next CHUNK bits of the binary fraction r/d (r < d), and what remains
FracChunk(r, d) ==
    [bits |-> Pad(NatToBits((r * 2^CHUNK) \div d), CHUNK),
     rem |-> (r * 2^CHUNK) % d]

\* the first 4 * CHUNK bits of the binary fraction r/d, and what remains
FracBits(r, d) ==
    LET c1 == FracChunk(r, d)
        c2 == FracChunk(c1.rem, d)
        c3 == FracChunk(c2.rem, d)
        c4 == FracChunk(c3.rem, d)
    IN  [bits |-> c1.bits \o c2.bits \o c3.bits \o c4.bits, rem |-> c4.rem]

\* b without its leading zero bits
StripZeros(b) ==
    IF \A i \in 1..Len(b) : b[i] = 0 THEN <<>>
    ELSE LET j == CHOOSE i \in 1..Len(b) :
                      b[i] = 1 /\ \A l \in 1..(i - 1) : b[l] = 0
         IN  SubSeq(b, j, Len(b))

\* b * 2^e (plus a non-zero rest below the last bit when sticky) rounded to
\* PRECISION bits, ties to even
RoundNearestEven(b, sticky, e) ==
    IF Len(b) <= PRECISION THEN [m |-> b, e |-> e]
    ELSE LET keep == SubSeq(b, 1, PRECISION)
             st == sticky \/ \E i \in (PRECISION + 2)..Len(b) : b[i] = 1
             up == b[PRECISION + 1] = 1 /\ (st \/ keep[PRECISION] = 1)
             m1 == IF up THEN BitsInc(keep) ELSE keep
             e1 == e + (Len(b) - PRECISION)
         IN  IF Len(m1) > PRECISION
             THEN [m |-> SubSeq(m1, 1, PRECISION), e |-> e1 + 1]
             ELSE [m |-> m1, e |-> e1]

\* the float t / d of two ints (0 <= t < 2^30, 0 < d < 2^14)
FloatDiv(t, d) ==
    IF t = 0 THEN [m |-> <<>>, e |-> 0]
    ELSE LET fb == FracBits(t % d, d)
         IN  RoundNearestEven(StripZeros(NatToBits(t \div d) \o fb.bits),
                              fb.rem # 0, 0 - 4 * CHUNK)

\* the bits of b * p (Len(b) <= 4 * CHUNK, 0 < p < 2^14)
BitsMul(b, p) ==
    LET pb == Pad(b, 4 * CHUNK)
        limb(i) == BitsToNat(SubSeq(pb, CHUNK * (i - 1) + 1, CHUNK * i))
        l4 == limb(4) * p
        l3 == limb(3) * p + l4 \div 2^CHUNK
        l2 == limb(2) * p + l3 \div 2^CHUNK
        l1 == limb(1) * p + l2 \div 2^CHUNK
    IN  StripZeros(NatToBits(l1)
                   \o Pad(NatToBits(l2 % 2^CHUNK), CHUNK)
                   \o Pad(NatToBits(l3 % 2^CHUNK), CHUNK)
                   \o Pad(NatToBits(l4 % 2^CHUNK), CHUNK))

\* the float p * x of an int p and a float x
FloatMul(p, x) ==
    IF p = 0 \/ x.m = <<>> THEN [m |-> <<>>, e |-> 0]
    ELSE RoundNearestEven(BitsMul(x.m, p), FALSE, x.e)

floor(x) ==
    IF x.m = <<>> THEN 0
    ELSE IF x.e >= 0 THEN BitsToNat(x.m) * 2^(x.e)
    ELSE IF Len(x.m) + x.e <= 0 THEN 0
    ELSE BitsToNat(SubSeq(x.m, 1, Len(x.m) + x.e))

\* math.ceil(x)
ceil(x) ==
    IF x.m = <<>> THEN 0
    ELSE IF x.e >= 0 THEN BitsToNat(x.m) * 2^(x.e)
    ELSE LET k == Len(x.m) + x.e
         IN  IF k <= 0 THEN 1
             ELSE BitsToNat(SubSeq(x.m, 1, k))
                  + (IF \E i \in (k + 1)..Len(x.m) : x.m[i] = 1 THEN 1 ELSE 0)

---------------------------------------------------------------------------
(* Values *)

None == [None |-> TRUE]

\* convert.py is not running
NoConvert ==
    /\ convert_pc = "none"
    /\ convert_data = None
    /\ convert_row = None
    /\ convert_csv = None

\* what a call gives back: a value, or the exception it raises
Return(v) == [value |-> v]

Raise(e) == [raises |-> e]

Raises(r) == "raises" \in DOMAIN r

\* an exact fraction num/den (den > 0), the value of a float division
Frac(n, d) == [num |-> n, den |-> d]

FracAdd(a, b) == Frac(a.num * b.den + b.num * a.den, a.den * b.den)

FracSub(a, b) == Frac(a.num * b.den - b.num * a.den, a.den * b.den)

FracEq(a, b) == a.num * b.den = b.num * a.den

---------------------------------------------------------------------------
(* ElectionGeo: partition, validation, aggregation *)

\* _get_details_for_region(region) on the items of a year's dataset
GetDetailsForRegion(items, y, region) ==
    LET IsAbroad(item) == item.number = ABROAD_DISTRICT[y]
        IsTbilisi(item) == item.number \in TBILISI_DISTRICTS[y]
        IsOther(item) ==
            item.number \notin
                Range(list(ABROAD_DISTRICT[y])) \cup TBILISI_DISTRICTS[y]
    IN  CASE region = "abroad" ->
                 IF SelectSeq(items, IsAbroad) = <<>> THEN <<>>
                 ELSE <<SelectSeq(items, IsAbroad)[1]>>
          [] region = "tbilisi" -> SelectSeq(items, IsTbilisi)
          [] region = "other" -> SelectSeq(items, IsOther)
          [] OTHER -> <<>>

\* the party numbers of one district, sorted(..., key=int)
PartyNumbers(item) ==
    sorted([i \in 1..Len(item.subjects) |-> item.subjects[i].number])

\* _are_valid_items(items)
AreValidItems(items) ==
    IF Len(items) = 0 THEN FALSE
    ELSE IF Len(items) > 1
    THEN \A i \in 2..Len(items) : PartyNumbers(items[i]) = PartyNumbers(items[1])
    ELSE TRUE

\* _get_party_name(name); a name is the sequence of its '|'-separated parts
GetPartyName(name) == IF Len(name) > 1 THEN name[2] ELSE name[1]

\* the subjects of all the districts of a list, in the order of the two loops
RECURSIVE Subjects(_)
Subjects(items) ==
    IF items = <<>> THEN <<>> ELSE items[1].subjects \o Subjects(Tail(items))

\* _set_party_name_by_number(): the names of the subjects of the abroad district
RECURSIVE AddPartyNames(_, _)
AddPartyNames(names, subjects) ==
    IF subjects = <<>> THEN names
    ELSE AddPartyNames(
             IF subjects[1].number \in DOMAIN names THEN names
             ELSE Put(names, subjects[1].number, GetPartyName(subjects[1].name)),
             Tail(subjects))

SetPartyNameByNumber(names, items, y) ==
    AddPartyNames(names, Subjects(GetDetailsForRegion(items, y, "abroad")))

\* _get_vote_from_subject(subject)
GetVoteFromSubject(subject) ==
    IF "votes" \in DOMAIN subject THEN subject.votes ELSE subject.vote

\* AppendEach without the else branch: every value replaces the list
RECURSIVE AppendEach_overwrite(_, _)
AppendEach_overwrite(d, entries) ==
    IF entries = <<>> THEN d
    ELSE AppendEach_overwrite(Put(d, entries[1][1], <<entries[1][2]>>),
                              Tail(entries))

\* d[k] = [v] for a new key, d[k] += [v] otherwise, for each <<k, v>> in turn
RECURSIVE AppendEach(_, _)
AppendEach(d, entries) ==
    IF entries = <<>> THEN d
    ELSE LET k == entries[1][1]
             v == entries[1][2]
         IN  AppendEach(IF k \in DOMAIN d THEN [d EXCEPT ![k] = Append(@, v)]
                        ELSE Put(d, k, <<v>>),
                        Tail(entries))

\* _set_vote_pcts_by_number(details, region): the new vote_pcts_by_number[region]
SetVotePctsByNumber(pcts, items) ==
    LET ss == Subjects(items)
    IN  AppendEach(pcts, [i \in 1..Len(ss) |-> <<ss[i].number, ss[i].percent>>])

\* _set_vote_counts_by_number(details, region)
SetVoteCountsByNumber(counts, items) ==
    LET ss == Subjects(items)
    IN  AppendEach(counts,
                   [i \in 1..Len(ss) |-> <<ss[i].number, GetVoteFromSubject(ss[i])>>])

\* _set_vote_pcts_by_number_avg(region)
SetVotePctsByNumberAvg(avg, pcts) ==
    [k \in (DOMAIN avg) \cup (DOMAIN pcts) |->
        IF k \in DOMAIN pcts THEN Frac(sum(pcts[k]), Len(pcts[k])) ELSE avg[k]]

\* _set_vote_counts_by_number_sum(region)
SetVoteCountsByNumberSum(sums, counts) ==
    [k \in (DOMAIN sums) \cup (DOMAIN counts) |->
        IF k \in DOMAIN counts THEN sum(counts[k]) ELSE sums[k]]

\* the loop of _set_vote_counts_by_number_sum_all() over the sorted keys; a
\* key missing from tbilisi or other raises KeyError and ends the loop
RECURSIVE SumAllLoop(_, _, _)
SumAllLoop(sum_all, keys, sums) ==
    IF keys = <<>> THEN [sum_all |-> sum_all, raises |-> ""]
    ELSE LET k == keys[1]
         IN  IF k \notin DOMAIN sums["tbilisi"] \/ k \notin DOMAIN sums["other"]
             THEN [sum_all |-> sum_all, raises |-> "KeyError"]
             ELSE SumAllLoop(
                      Put(sum_all, k,
                          sum(<<sums["tbilisi"][k], sums["other"][k],
                                sums["abroad"][k]>>)),
                      Tail(keys), sums)

\* _set_vote_counts_by_number_sum_all()
SetVoteCountsByNumberSumAll(sum_all, sums) ==
    SumAllLoop(sum_all, SetToSortedSeq(DOMAIN sums["abroad"]), sums)

---------------------------------------------------------------------------
(* ElectionGeo: electoral threshold *)

\* the keys of the OrderedDict vote_counts_by_number_sum_all in its order
SumAllKeys(sum_all) == SetToSortedSeq(DOMAIN sum_all)

\* _total of line 295-297
Total(sum_all) ==
    LET ks == SumAllKeys(sum_all)
    IN  sum([i \in 1..Len(ks) |-> sum_all[ks[i]]])

\* MinVotesRequired with int() in place of math.ceil
MinVotesRequired_truncated(threshold, total) ==
    floor(FloatMul(threshold, FloatDiv(total, 100)))

\* _min_votes_required of line 299
MinVotesRequired(threshold, total) ==
    ceil(FloatMul(threshold, FloatDiv(total, 100)))

\* PartyNumbersPass with > in place of >=
PartyNumbersPass_strict(threshold, sum_all, pass) ==
    LET ks == SumAllKeys(sum_all)
        min == MinVotesRequired(threshold, Total(sum_all))
        Passes(k) == sum_all[k] > min
    IN  pass \o SelectSeq(ks, Passes)

\* PartyNumbersPass with <= in place of >=
PartyNumbersPass_below(threshold, sum_all, pass) ==
    LET ks == SumAllKeys(sum_all)
        min == MinVotesRequired(threshold, Total(sum_all))
        Passes(k) == sum_all[k] <= min
    IN  pass \o SelectSeq(ks, Passes)

\* line 300-302 with the threshold percentage of the year and type
PartyNumbersPass(threshold, sum_all, pass) ==
    LET ks == SumAllKeys(sum_all)
        min == MinVotesRequired(threshold, Total(sum_all))
        Passes(k) == sum_all[k] >= min
    IN  pass \o SelectSeq(ks, Passes)

\* _set_party_numbers_pass_electoral_threshold()
SetPartyNumbersPassElectoralThreshold(y, t, sum_all, pass) ==
    PartyNumbersPass(ELECTORAL_THRESHOLDS[y][t], sum_all, pass)

---------------------------------------------------------------------------
(* ElectionGeo: main() *)

\* the election types a caller may ask for
Types == {"proportional", "majoritarian"}

\* NewElectionGeo without the check of the type
NewElectionGeo_unchecked(y, t, f) ==
    [year |-> y, type |-> t, file |-> f, details |-> None, status |-> "new",
     party_name_by_number |-> EmptyDict,
     vote_pcts_by_number |-> EmptyByRegion,
     vote_pcts_by_number_avg |-> EmptyByRegion,
     vote_counts_by_number |-> EmptyByRegion,
     vote_counts_by_number_sum |-> EmptyByRegion,
     vote_counts_by_number_sum_all |-> EmptyDict,
     party_numbers_pass_electoral_threshold |-> <<>>,
     min_votes_required |-> None]

\* ElectionGeo(year, type, file): the attributes __init__ has set when it
\* ends; min_votes_required is the local _min_votes_required of the last
\* threshold evaluation.  status "new" is an instance handed to the caller,
\* status "NotImplementedError" the exception raised by __init__, which
\* leaves the caller without an instance
NewElectionGeo(y, t, f) ==
    [year |-> y, type |-> t, file |-> f, details |-> None,
     status |-> IF t # "proportional" THEN "NotImplementedError" ELSE "new",
     party_name_by_number |-> EmptyDict,
     vote_pcts_by_number |-> EmptyByRegion,
     vote_pcts_by_number_avg |-> EmptyByRegion,
     vote_counts_by_number |-> EmptyByRegion,
     vote_counts_by_number_sum |-> EmptyByRegion,
     vote_counts_by_number_sum_all |-> EmptyDict,
     party_numbers_pass_electoral_threshold |-> <<>>,
     min_votes_required |-> None]

\* _load_details(): self.details afterwards when the file holds content
LoadDetails(f, self_details, content) ==
    IF endswith(lower(f), <<".", "j", "s", "o", "n">>) THEN content
    ELSE IF endswith(lower(f), <<".", "c", "s", "v">>) THEN content
    ELSE self_details

\* lines 358-399 of main(), after the validation: the instance afterwards
Aggregate(s1, region_details) ==
    LET names == SetPartyNameByNumber(s1.party_name_by_number, s1.details.items,
                                      s1.year)
        counts == [r \in Regions |->
                      SetVoteCountsByNumber(s1.vote_counts_by_number[r],
                                            region_details[r])]
        sums == [r \in Regions |->
                    SetVoteCountsByNumberSum(s1.vote_counts_by_number_sum[r],
                                             counts[r])]
        all == SetVoteCountsByNumberSumAll(s1.vote_counts_by_number_sum_all,
                                           sums)
        s2 == [s1 EXCEPT !.party_name_by_number = names,
                         !.vote_counts_by_number = counts,
                         !.vote_counts_by_number_sum = sums,
                         !.vote_counts_by_number_sum_all = all.sum_all]
        pass == SetPartyNumbersPassElectoralThreshold(
                    s1.year, s1.type, all.sum_all,
                    s1.party_numbers_pass_electoral_threshold)
        pcts == [r \in Regions |->
                    SetVotePctsByNumber(s1.vote_pcts_by_number[r],
                                        region_details[r])]
        avgs == [r \in Regions |->
                    SetVotePctsByNumberAvg(s1.vote_pcts_by_number_avg[r],
                                           pcts[r])]
    IN  IF all.raises = "KeyError" THEN [s2 EXCEPT !.status = "KeyError"]
        ELSE IF s1.type \notin DOMAIN ELECTORAL_THRESHOLDS[s1.year]
        THEN [s2 EXCEPT !.status = "KeyError"]
        ELSE [s2 EXCEPT !.party_numbers_pass_electoral_threshold = pass,
                        !.min_votes_required =
                            MinVotesRequired(
                                ELECTORAL_THRESHOLDS[s1.year][s1.type],
                                Total(all.sum_all)),
                        !.vote_pcts_by_number = pcts,
                        !.vote_pcts_by_number_avg = avgs,
                        !.status = "done"]

\* RunMain with the three validations moved behind the aggregation
RunMain_validates_last(self, content) ==
    LET loaded == LoadDetails(self.file, self.details, content)
        s1 == [self EXCEPT !.details = loaded]
        region_details ==
            [r \in Regions |-> GetDetailsForRegion(loaded.items, self.year, r)]
        valid == /\ AreValidItems(region_details["tbilisi"])
                 /\ AreValidItems(region_details["other"])
                 /\ AreValidItems(region_details["abroad"])
    IN  IF loaded = None THEN [s1 EXCEPT !.status = "TypeError"]
        ELSE IF ~valid
        THEN [Aggregate(s1, region_details) EXCEPT !.status = "ValueError"]
        ELSE Aggregate(s1, region_details)

\* main() on the instance self when the file holds content: the instance
\* afterwards, status telling how main() ended.  With details None the
\* subscript self.details['items'] of line 225 raises TypeError
RunMain(self, content) ==
    LET loaded == LoadDetails(self.file, self.details, content)
        s1 == [self EXCEPT !.details = loaded]
        region_details ==
            [r \in Regions |-> GetDetailsForRegion(loaded.items, self.year, r)]
        valid == /\ AreValidItems(region_details["tbilisi"])
                 /\ AreValidItems(region_details["other"])
                 /\ AreValidItems(region_details["abroad"])
    IN  IF loaded = None THEN [s1 EXCEPT !.status = "TypeError"]
        ELSE IF ~valid THEN [s1 EXCEPT !.status = "ValueError"]
        ELSE Aggregate(s1, region_details)

---------------------------------------------------------------------------
(* ElectionGeo: the queries of the printer *)

\* _get_vote_pcts_by_number_avg_pass(region)
GetVotePctsByNumberAvgPass(self, region) ==
    [k \in {n \in DOMAIN self.vote_pcts_by_number_avg[region] :
              n \in Range(self.party_numbers_pass_electoral_threshold)} |->
        self.vote_pcts_by_number_avg[region][k]]

\* the sum of the fractions d[k] over the keys in ks
RECURSIVE FracSum(_, _)
FracSum(d, ks) ==
    IF ks = {} THEN Frac(0, 1)
    ELSE LET k == CHOOSE x \in ks : TRUE
         IN  FracAdd(FracSum(d, ks \ {k}), d[k])

\* _get_vote_pcts_by_number_avg_pass_not_41_sum(region)
GetVotePctsByNumberAvgPassNot41Sum(self, region) ==
    LET d == GetVotePctsByNumberAvgPass(self, region)
    IN  FracSum(d, {k \in DOMAIN d : int(k) # 41})

\* get_votes_by_number_pct_avg_pass(region, target)
get_votes_by_number_pct_avg_pass(self, region, target) ==
    IF target = "41"
    THEN IF "41" \in DOMAIN GetVotePctsByNumberAvgPass(self, region)
         THEN Return(GetVotePctsByNumberAvgPass(self, region)["41"])
         ELSE Raise("KeyError")
    ELSE Return(GetVotePctsByNumberAvgPassNot41Sum(self, region))

\* the loop of _get_vote_count_by_number_sum_pass_not_41(region)
RECURSIVE CountNot41Loop(_, _, _)
CountNot41Loop(acc, numbers, sums) ==
    IF numbers = <<>> THEN Return(acc)
    ELSE IF int(numbers[1]) # 41
    THEN IF numbers[1] \in DOMAIN sums
         THEN CountNot41Loop(acc + sums[numbers[1]], Tail(numbers), sums)
         ELSE Raise("KeyError")
    ELSE CountNot41Loop(acc, Tail(numbers), sums)

\* GetVoteCountByNumberSumPassNot41 looping over all the subjects of the
\* region instead of the qualifying ones
GetVoteCountByNumberSumPassNot41_all(self, region) ==
    CountNot41Loop(0, SetToSortedSeq(DOMAIN self.vote_counts_by_number_sum[region]),
                   self.vote_counts_by_number_sum[region])

\* _get_vote_count_by_number_sum_pass_not_41(region)
GetVoteCountByNumberSumPassNot41(self, region) ==
    CountNot41Loop(0, self.party_numbers_pass_electoral_threshold,
                   self.vote_counts_by_number_sum[region])

\* get_votes_by_number_count_sum_pass(region, target)
get_votes_by_number_count_sum_pass(self, region, target) ==
    IF target = "41"
    THEN IF "41" \in DOMAIN self.vote_counts_by_number_sum[region]
         THEN Return(self.vote_counts_by_number_sum[region]["41"])
         ELSE Raise("KeyError")
    ELSE GetVoteCountByNumberSumPassNot41(self, region)

---------------------------------------------------------------------------
(* Input: the datasets main() may load *)

DistrictNumbers == {"0", "1", "10", "30", "87"}

\* the order of the districts in a dataset
DistrictOrder == <<"0", "1", "10", "30", "87">>

\* the results one district may report: <<number, votes, percent>> of each of
\* its subjects, in the order of the file
SubjectListSeq ==
    << << <<"41", 1000, 4000>>, <<"5", 2000, 5000>>, <<"12", 100, 250>> >>,
       << <<"41", 2000, 4500>>, <<"5", 1000, 4000>>, <<"12", 50, 125>> >>,
       << <<"41", 1, 475>>, <<"5", 20, 9525>>, <<"12", 0, 0>> >>,
       << <<"12", 0, 0>>, <<"5", 20, 9100>>, <<"41", 2, 900>> >>,
       << <<"41", 1, 10000>> >> >>

SubjectLists == Range(SubjectListSeq)

\* the name of a subject in the JSON files
SubjectName(number) ==
    CASE number = "41" -> <<"kartuli ocneba", "Georgian Dream">>
      [] number = "5" -> <<"nacionaluri modzraoba", "National Movement">>
      [] OTHER -> <<"subieqti">>

\* a subject as the file of year y gives it: the CSV files of 2012 and 2016
\* are normalized to the name '?' and the field votes, the JSON of 2020 has
\* the field vote, the JSON of 2024 the field votes
SubjectRecord(y, e) ==
    IF y = 2020
    THEN [number |-> e[1], name |-> SubjectName(e[1]), vote |-> e[2],
          percent |-> e[3]]
    ELSE [number |-> e[1],
          name |-> IF y = 2024 THEN SubjectName(e[1]) ELSE <<"?">>,
          votes |-> e[2], percent |-> e[3]]

\* the dataset of year y with the districts S reporting f
Dataset(y, S, f) ==
    LET In(n) == n \in S
        ns == SelectSeq(DistrictOrder, In)
    IN  [items |->
            [i \in 1..Len(ns) |->
                [number |-> ns[i],
                 subjects |-> [j \in 1..Len(f[ns[i]]) |->
                                  SubjectRecord(y, f[ns[i]][j])]]]]

Datasets(y) ==
    UNION { {Dataset(y, S, f) : f \in [S -> SubjectLists]} :
            S \in {T \in SUBSET DistrictNumbers : Cardinality(T) <= MaxDistricts} }

---------------------------------------------------------------------------
(* The specification of one ElectionGeo instance *)

Self ==
    [year |-> year, type |-> type, file |-> file, details |-> details,
     status |-> status,
     party_name_by_number |-> party_name_by_number,
     vote_pcts_by_number |-> vote_pcts_by_number,
     vote_pcts_by_number_avg |-> vote_pcts_by_number_avg,
     vote_counts_by_number |-> vote_counts_by_number,
     vote_counts_by_number_sum |-> vote_counts_by_number_sum,
     vote_counts_by_number_sum_all |-> vote_counts_by_number_sum_all,
     party_numbers_pass_electoral_threshold |->
         party_numbers_pass_electoral_threshold,
     min_votes_required |-> min_votes_required]

SetSelf(s) ==
    /\ year' = s.year
    /\ type' = s.type
    /\ file' = s.file
    /\ details' = s.details
    /\ status' = s.status
    /\ party_name_by_number' = s.party_name_by_number
    /\ vote_pcts_by_number' = s.vote_pcts_by_number
    /\ vote_pcts_by_number_avg' = s.vote_pcts_by_number_avg
    /\ vote_counts_by_number' = s.vote_counts_by_number
    /\ vote_counts_by_number_sum' = s.vote_counts_by_number_sum
    /\ vote_counts_by_number_sum_all' = s.vote_counts_by_number_sum_all
    /\ party_numbers_pass_electoral_threshold' =
           s.party_numbers_pass_electoral_threshold
    /\ min_votes_required' = s.min_votes_required

IsSelf(s) ==
    /\ year = s.year
    /\ type = s.type
    /\ file = s.file
    /\ details = s.details
    /\ status = s.status
    /\ party_name_by_number = s.party_name_by_number
    /\ vote_pcts_by_number = s.vote_pcts_by_number
    /\ vote_pcts_by_number_avg = s.vote_pcts_by_number_avg
    /\ vote_counts_by_number = s.vote_counts_by_number
    /\ vote_counts_by_number_sum = s.vote_counts_by_number_sum
    /\ vote_counts_by_number_sum_all = s.vote_counts_by_number_sum_all
    /\ party_numbers_pass_electoral_threshold =
           s.party_numbers_pass_electoral_threshold
    /\ min_votes_required = s.min_votes_required

\* the file of a year, named as the entry point names it up to the stem and
\* the case of the extension: CSV for 2012 and 2016, JSON for 2020 and 2024
FileOf(y) ==
    CASE y = 2012 -> <<"a", ".", "c", "s", "v">>
      [] y = 2016 -> <<"a", ".", "C", "S", "V">>
      [] y = 2020 -> <<"a", ".", "j", "s", "o", "n">>
      [] y = 2024 -> <<"a", ".", "J", "s", "o", "n">>

\* file names that end in neither .json nor .csv
OtherFiles == { <<"a", ".", "t", "x", "t">>, <<"j", "s", "o", "n">> }

\* ElectionGeo(year, type, file) as a caller may construct it
Init ==
    /\ \E y \in Years, t \in Types :
          \E f \in {FileOf(y)} \cup OtherFiles : IsSelf(NewElectionGeo(y, t, f))
    /\ runs = 0
    /\ query = None
    /\ threshold_in = None
    /\ threshold_out = None
    /\ election_geo_objs = <<>>
    /\ printed = None
    /\ NoConvert

\* a call of main() on an instance; the file holds at every call what it
\* held at the first
MainCall ==
    /\ status # "NotImplementedError"
    /\ \E content \in (IF details = None THEN Datasets(year) ELSE {details}) :
          SetSelf(RunMain(Self, content))
    /\ runs' = runs + 1
    /\ UNCHANGED <<query, threshold_in, threshold_out, election_geo_objs, printed>>
    /\ UNCHANGED convert_vars

\* main() as the entry point calls it: once on each instance
Main ==
    /\ runs < 1
    /\ MainCall

\* main() called again and again on the same instance
MainRepeated ==
    /\ runs < MaxRuns
    /\ MainCall

\* one call of a query method by the printer, after main(); the methods do
\* not change the instance, so a behaviour follows one call only
Query ==
    /\ status = "done"
    /\ query = None
    /\ \E region \in Regions, target \in {"41", "others"} :
          \/ query' = [method |-> "get_votes_by_number_pct_avg_pass",
                       region |-> region, target |-> target,
                       result |-> get_votes_by_number_pct_avg_pass(
                                      Self, region, target)]
          \/ query' = [method |-> "get_votes_by_number_count_sum_pass",
                       region |-> region, target |-> target,
                       result |-> get_votes_by_number_count_sum_pass(
                                      Self, region, target)]
    /\ UNCHANGED <<year, type, file, details, status, runs, party_name_by_number,
                   vote_pcts_by_number, vote_pcts_by_number_avg,
                   vote_counts_by_number, vote_counts_by_number_sum,
                   vote_counts_by_number_sum_all,
                   party_numbers_pass_electoral_threshold, min_votes_required,
                   threshold_in, threshold_out, election_geo_objs, printed>>
    /\ UNCHANGED convert_vars

Next == Main \/ Query

Spec == Init /\ [][Next]_vars

\* an instance whose caller calls main() up to MaxRuns times
NextRepeated == MainRepeated

SpecRepeated == Init /\ [][NextRepeated]_vars

---------------------------------------------------------------------------
(* Properties of one ElectionGeo instance *)

Loaded == status \notin {"new", "NotImplementedError", "TypeError"}

Items == details.items

SubjectNumbers(item) == {item.subjects[j].number : j \in 1..Len(item.subjects)}

\* the districts _get_details_for_region returns for a region, as a set
Returned(region) == Range(GetDetailsForRegion(Items, year, region))

\* the region the membership tables of the year give a district
RegionOf(item) ==
    IF item.number = ABROAD_DISTRICT[year] THEN "abroad"
    ELSE IF item.number \in TBILISI_DISTRICTS[year] THEN "tbilisi"
    ELSE "other"

\* C1: every district of the dataset is returned for exactly one region,
\* the one the year's abroad identifier and capital table give it.
C1_ExactlyOneRegion ==
    Loaded =>
        \A i \in 1..Len(Items) : \A r \in Regions :
            (Items[i] \in Returned(r)) <=> (r = RegionOf(Items[i]))

\* C2: a dataset in which some district's set of subject identifiers
\* differs from that of the first district is rejected with the validation
\* error; main() gets past validation only when all the sets are identical.
C2_MismatchRejected ==
    (Loaded /\ \E i \in 1..Len(Items) :
                   SubjectNumbers(Items[i]) # SubjectNumbers(Items[1]))
        => status = "ValueError"

\* C3: after main() every subject identifier that occurs in a district has
\* a combined total, which is the sum of its three per-region sums.
C3_CombinedTotals ==
    status = "done" =>
        \A i \in 1..Len(Items) : \A n \in SubjectNumbers(Items[i]) :
            /\ n \in DOMAIN vote_counts_by_number_sum_all
            /\ \A r \in Regions : n \in DOMAIN vote_counts_by_number_sum[r]
            /\ vote_counts_by_number_sum_all[n] =
                   vote_counts_by_number_sum["abroad"][n]
                   + vote_counts_by_number_sum["tbilisi"][n]
                   + vote_counts_by_number_sum["other"][n]

\* C5: after main() a subject is in party_numbers_pass_electoral_threshold
\* iff its combined total is at least the minimum required vote count.
C5_QualifiesIffAtLeastMin ==
    status = "done" =>
        /\ Range(party_numbers_pass_electoral_threshold)
               \subseteq DOMAIN vote_counts_by_number_sum_all
        /\ \A n \in DOMAIN vote_counts_by_number_sum_all :
               (n \in Range(party_numbers_pass_electoral_threshold))
                   <=> (vote_counts_by_number_sum_all[n] >= min_votes_required)

\* a subject whose combined total equals the cutoff exactly qualifies
C5_AtCutoff ==
    /\ status = "done"
    /\ min_votes_required > 1
    /\ \E n \in DOMAIN vote_counts_by_number_sum_all :
           /\ vote_counts_by_number_sum_all[n] = min_votes_required
           /\ n \in Range(party_numbers_pass_electoral_threshold)

\* a subject one vote below the cutoff does not qualify
C5_BelowCutoff ==
    /\ status = "done"
    /\ \E n \in DOMAIN vote_counts_by_number_sum_all :
           /\ vote_counts_by_number_sum_all[n] = min_votes_required - 1
           /\ n \notin Range(party_numbers_pass_electoral_threshold)

\* the entry of subject n in a district
Entry(item, n) ==
    CHOOSE x \in Range(item.subjects) : x.number = n

ReportedVotes(item, n) ==
    IF "votes" \in DOMAIN Entry(item, n) THEN Entry(item, n).votes
    ELSE Entry(item, n).vote

C8_NonQualifying41Raises ==
    (query # None /\ query.target = "41"
        /\ "41" \notin Range(party_numbers_pass_electoral_threshold))
        => Raises(query.result)

\* the qualifying subjects other than the tracked one
OthersPass == Range(party_numbers_pass_electoral_threshold) \ {"41"}

RECURSIVE SetSum(_, _)
SetSum(d, ks) ==
    IF ks = {} THEN 0
    ELSE LET k == CHOOSE x \in ks : TRUE IN d[k] + SetSum(d, ks \ {k})

\* the same for the numerators of fractions over one denominator
RECURSIVE NumSum(_, _)
NumSum(d, ks) ==
    IF ks = {} THEN 0
    ELSE LET k == CHOOSE x \in ks : TRUE IN d[k].num + NumSum(d, ks \ {k})

\* C9: the 'others' count and the 'others' percentage of a region are the
\* sums over exactly the qualifying subjects other than 41, each once.
C9_OthersSums ==
    (query # None /\ query.target = "others") =>
        /\ ~Raises(query.result)
        /\ query.method = "get_votes_by_number_count_sum_pass" =>
               query.result.value =
                   SetSum(vote_counts_by_number_sum[query.region], OthersPass)
        /\ query.method = "get_votes_by_number_pct_avg_pass" =>
               FracEq(query.result.value,
                      Frac(NumSum(vote_pcts_by_number_avg[query.region], OthersPass),
                           Len(GetDetailsForRegion(Items, year, query.region))))

\* an 'others' count query where 41 and one other subject qualify and a
\* third subject with votes in the region does not
C9_OthersCount ==
    /\ query # None
    /\ query.target = "others"
    /\ query.method = "get_votes_by_number_count_sum_pass"
    /\ Range(party_numbers_pass_electoral_threshold) = {"41", "5"}
    /\ vote_counts_by_number_sum[query.region]["12"] > 0
    /\ query.result = Return(vote_counts_by_number_sum[query.region]["5"])

---------------------------------------------------------------------------
(* The threshold evaluation as a function of the combined totals and the   *)
(* threshold percentage                                                    *)

\* the subjects and the combined totals tried
ThresholdSubjects == {"41", "5", "12"}

CombinedTotals == {0, 1, 5, 6, 94, 95, 50000, 50001, 950000}

\* the percentages ELECTORAL_THRESHOLDS gives a proportional election
ProportionalThresholds == {ELECTORAL_THRESHOLDS[y]["proportional"] : y \in Years}

NoElectionGeo ==
    [year |-> None, type |-> None, file |-> None, details |-> None,
     status |-> "none",
     party_name_by_number |-> None, vote_pcts_by_number |-> None,
     vote_pcts_by_number_avg |-> None, vote_counts_by_number |-> None,
     vote_counts_by_number_sum |-> None,
     vote_counts_by_number_sum_all |-> None,
     party_numbers_pass_electoral_threshold |-> None,
     min_votes_required |-> None]

InitThreshold ==
    /\ IsSelf(NoElectionGeo)
    /\ runs = 0
    /\ query = None
    /\ threshold_in \in
           {[vote_counts_by_number_sum_all |-> f] :
               f \in [ThresholdSubjects -> CombinedTotals]}
    /\ threshold_out = EmptyDict
    /\ election_geo_objs = <<>>
    /\ printed = None
    /\ NoConvert

\* _set_party_numbers_pass_electoral_threshold() of a fresh instance whose
\* threshold percentage is p, on the combined totals of threshold_in; the
\* results of at most two percentages are kept side by side
EvaluateThreshold ==
    /\ threshold_in # None
    /\ Cardinality(DOMAIN threshold_out) < 2
    /\ \E p \in (0..MaxThreshold) \ DOMAIN threshold_out :
          threshold_out' =
              Put(threshold_out, p,
                  [min_votes_required |->
                       MinVotesRequired(
                           p, Total(threshold_in.vote_counts_by_number_sum_all)),
                   party_numbers_pass_electoral_threshold |->
                       PartyNumbersPass(
                           p, threshold_in.vote_counts_by_number_sum_all, <<>>)])
    /\ UNCHANGED <<year, type, file, details, status, runs, party_name_by_number,
                   vote_pcts_by_number, vote_pcts_by_number_avg,
                   vote_counts_by_number, vote_counts_by_number_sum,
                   vote_counts_by_number_sum_all,
                   party_numbers_pass_electoral_threshold, min_votes_required,
                   query, threshold_in, election_geo_objs, printed>>
    /\ UNCHANGED convert_vars

NextThreshold == EvaluateThreshold

SpecThreshold == InitThreshold /\ [][NextThreshold]_vars

\* the sum of all subjects' combined totals
TotalValid ==
    SetSum(threshold_in.vote_counts_by_number_sum_all,
           DOMAIN threshold_in.vote_counts_by_number_sum_all)

\* the least integer not below a/b
IntCeiling(a, b) == (a + b - 1) \div b

\* C4: for the threshold percentages of a proportional election the minimum
\* vote count is the exact integer ceiling of percent * total / 100.
C4_ExactCeiling ==
    threshold_in # None =>
        \A p \in DOMAIN threshold_out :
            p \in ProportionalThresholds =>
                threshold_out[p].min_votes_required =
                    IntCeiling(p * TotalValid, 100)

\* 5% of 101 gives 6
C4_FivePercentOf101 ==
    /\ threshold_in # None
    /\ TotalValid = 101
    /\ 5 \in DOMAIN threshold_out
    /\ threshold_out[5].min_votes_required = 6

\* 5% of 1,000,001 gives 50001
C4_FivePercentOfMillion ==
    /\ threshold_in # None
    /\ TotalValid = 1000001
    /\ 5 \in DOMAIN threshold_out
    /\ threshold_out[5].min_votes_required = 50001

\* C6: for the same combined totals and percentages p1 <= p2 the qualifying
\* set of p2 is a subset of the qualifying set of p1.
C6_Monotone ==
    threshold_in # None =>
        \A p1 \in DOMAIN threshold_out : \A p2 \in DOMAIN threshold_out :
            p1 <= p2 =>
                Range(threshold_out[p2].party_numbers_pass_electoral_threshold)
                    \subseteq
                Range(threshold_out[p1].party_numbers_pass_electoral_threshold)

\* raising the percentage from 1 to 5 removes a subject from a non-empty
\* qualifying set
C6_FewerQualify ==
    /\ threshold_in # None
    /\ {1, 5} \subseteq DOMAIN threshold_out
    /\ Range(threshold_out[5].party_numbers_pass_electoral_threshold) # {}
    /\ Range(threshold_out[5].party_numbers_pass_electoral_threshold)
           # Range(threshold_out[1].party_numbers_pass_electoral_threshold)

---------------------------------------------------------------------------
(* ElectionGeoPrinter *)

\* round(x, 2) of a percentage: the nearest hundredth, ties to even
Round2(f) ==
    LET q == f.num \div f.den
        r == f.num % f.den
    IN  IF 2 * r < f.den THEN q
        ELSE IF 2 * r > f.den THEN q + 1
        ELSE IF q % 2 = 0 THEN q ELSE q + 1

\* the head line of a block: one column per instance
HeadLine(objs, title, with_threshold) ==
    [title |-> title,
     cols |-> [i \in 1..Len(objs) |->
                  IF with_threshold
                  THEN <<objs[i].year, objs[i].type,
                         ELECTORAL_THRESHOLDS[objs[i].year][objs[i].type]>>
                  ELSE <<objs[i].year, objs[i].type>>]]

\* Cell with the previous values of subject 41 in both rows
Cell_41(i, count, pct, counts_prev, pcts_prev, target) ==
    [count |-> count, pct |-> Round2(pct),
     delta |-> IF i > 1
               THEN [count |-> count - counts_prev["41"],
                     pct |-> Round2(FracSub(pct, pcts_prev["41"]))]
               ELSE None]

\* one cell of a row: count and rounded percentage, and from the second
\* column on the differences to the previous values
Cell(i, count, pct, counts_prev, pcts_prev, target) ==
    [count |-> count, pct |-> Round2(pct),
     delta |-> IF i > 1
               THEN [count |-> count - counts_prev[target],
                     pct |-> Round2(FracSub(pct, pcts_prev[target]))]
               ELSE None]

\* the loop over the instances that fills the two rows of one region (line
\* 423-437); counts_prev is whatever the loop before left in
\* _vote_counts_prev
RECURSIVE RowsLoop(_, _, _, _, _, _)
RowsLoop(objs, region, i, rows, counts_prev, pcts_prev) ==
    IF i > Len(objs)
    THEN [raises |-> "", rows |-> rows, counts_prev |-> counts_prev]
    ELSE LET pct_41 == get_votes_by_number_pct_avg_pass(objs[i], region, "41")
             count_41 == get_votes_by_number_count_sum_pass(objs[i], region, "41")
             pct_others ==
                 get_votes_by_number_pct_avg_pass(objs[i], region, "others")
             count_others ==
                 get_votes_by_number_count_sum_pass(objs[i], region, "others")
         IN  IF Raises(pct_41) \/ Raises(count_41) \/ Raises(pct_others)
                 \/ Raises(count_others)
             THEN [raises |-> "KeyError", rows |-> rows,
                   counts_prev |-> counts_prev]
             ELSE RowsLoop(
                      objs, region, i + 1,
                      [rows EXCEPT
                          ![1].cells = Append(@,
                              Cell(i, count_41.value, pct_41.value,
                                   counts_prev, pcts_prev, "41")),
                          ![2].cells = Append(@,
                              Cell(i, count_others.value, pct_others.value,
                                   counts_prev, pcts_prev, "others"))],
                      [t \in {"41", "others"} |->
                          IF t = "41" THEN count_41.value
                          ELSE count_others.value],
                      [t \in {"41", "others"} |->
                          IF t = "41" THEN pct_41.value ELSE pct_others.value])

\* the order and the titles of the blocks of print()
Blocks ==
    << [region |-> "tbilisi", title |-> "Tbilisi (all districts) averaged"],
       [region |-> "other", title |-> "Other regions averaged"],
       [region |-> "abroad", title |-> "Abroad"] >>

\* the blocks of the three regions from block b on: the lines printed and
\* the exception that ended print(), if any
RECURSIVE PrintBlocks(_, _, _, _)
PrintBlocks(objs, b, lines, counts_prev) ==
    IF b > Len(Blocks) THEN [raises |-> "", lines |-> lines]
    ELSE LET head == HeadLine(objs, Blocks[b].title, TRUE)
             last == objs[Len(objs)]
         IN  IF "41" \notin DOMAIN last.party_name_by_number
             THEN [raises |-> "KeyError", lines |-> Append(lines, head)]
             ELSE LET loop ==
                          RowsLoop(objs, Blocks[b].region, 1,
                                   << [label |-> <<"41", last.party_name_by_number["41"]>>,
                                       cells |-> <<>>],
                                      [label |-> <<"Sum of others pass electoral threshold">>,
                                       cells |-> <<>>] >>,
                                   counts_prev, None)
                  IN  IF loop.raises # ""
                      THEN [raises |-> loop.raises, lines |-> Append(lines, head)]
                      ELSE PrintBlocks(objs, b + 1,
                                       Append(lines, head) \o loop.rows,
                                       loop.counts_prev)

\* the row of the block "Voter participation"
RECURSIVE TotalsLoop(_, _, _, _)
TotalsLoop(objs, i, cells, total_prev) ==
    IF i > Len(objs) THEN cells
    ELSE LET total == Total(objs[i].vote_counts_by_number_sum_all)
         IN  TotalsLoop(objs, i + 1,
                        Append(cells,
                               [total |-> total,
                                delta |-> IF i > 1 THEN total - total_prev
                                          ELSE None]),
                        total)

\* ElectionGeoPrinter.print(): what was written to standard output and how print() ended
Printer_print(objs) ==
    LET blocks == PrintBlocks(objs, 1, <<>>, None)
    IN  IF blocks.raises # "" THEN blocks
        ELSE [raises |-> "",
              lines |-> blocks.lines
                        \o << HeadLine(objs, "Voter participation", FALSE),
                              [label |-> <<"Total valid">>,
                               cells |-> TotalsLoop(objs, 1, <<>>, 0)] >>]

\* the datasets of the instances handed to the printer: one district abroad,
\* one in Tbilisi and one elsewhere, reporting the subject lists a
PrinterAssignments ==
    { <<1, 2, 1>>, <<2, 1, 2>>, <<3, 4, 4>>, <<3, 3, 3>> }

PrinterDataset(y, a) ==
    LET tbilisi == IF y = 2020 THEN "1" ELSE "10"
    IN  Dataset(y, {ABROAD_DISTRICT[y], tbilisi, "30"},
                [n \in {ABROAD_DISTRICT[y], tbilisi, "30"} |->
                    SubjectListSeq[IF n = ABROAD_DISTRICT[y] THEN a[1]
                                   ELSE IF n = tbilisi THEN a[2] ELSE a[3]]])

\* the instances of year y after main()
PrinterObjs(y) ==
    {RunMain(NewElectionGeo(y, "proportional", FileOf(y)), PrinterDataset(y, a)) :
        a \in PrinterAssignments}

\* the lists of at most MaxYears instances of increasing years, each after
\* a main() that completed
PrinterLists ==
    UNION { {objs \in [1..n -> UNION {PrinterObjs(y) : y \in Years}] :
                /\ \A i \in 1..n : objs[i].status = "done"
                /\ \A i \in 1..(n - 1) : objs[i].year < objs[i + 1].year} :
            n \in 1..MaxYears }

InitPrinter ==
    /\ IsSelf(NoElectionGeo)
    /\ runs = 0
    /\ query = None
    /\ threshold_in = None
    /\ threshold_out = None
    /\ election_geo_objs \in PrinterLists
    /\ printed = None
    /\ NoConvert

\* ElectionGeoPrinter(election_geo_objs).print()
PrintAction ==
    /\ election_geo_objs # <<>>
    /\ printed = None
    /\ printed' = Printer_print(election_geo_objs)
    /\ UNCHANGED <<year, type, file, details, status, runs, party_name_by_number,
                   vote_pcts_by_number, vote_pcts_by_number_avg,
                   vote_counts_by_number, vote_counts_by_number_sum,
                   vote_counts_by_number_sum_all,
                   party_numbers_pass_electoral_threshold, min_votes_required,
                   query, threshold_in, threshold_out, election_geo_objs>>
    /\ UNCHANGED convert_vars

NextPrinter == PrintAction

SpecPrinter == InitPrinter /\ [][NextPrinter]_vars

\* the value print() reports for the instance at position i
Figure(i, region, target) ==
    [count |-> get_votes_by_number_count_sum_pass(
                   election_geo_objs[i], region, target).value,
     pct |-> get_votes_by_number_pct_avg_pass(
                 election_geo_objs[i], region, target).value]

\* the cell of the instance at position i in block b, row 1 (subject 41) or
\* row 2 (others)
PrintedCell(b, row, i) == printed.lines[3 * (b - 1) + 1 + row].cells[i]

\* C10: in every region and for both figures, the delta of the year at
\* position i > 0 is its value minus the value of the year at position
\* i-1 of the same region and figure, and position 0 has no delta.
C10_DeltaToPrevious ==
    (printed # None /\ printed.raises = "") =>
        \A b \in 1..Len(Blocks) : \A row \in 1..2 :
            \A i \in 1..Len(election_geo_objs) :
                LET target == IF row = 1 THEN "41" ELSE "others"
                    cur == Figure(i, Blocks[b].region, target)
                    cell == PrintedCell(b, row, i)
                IN  /\ cell.count = cur.count
                    /\ i = 1 => cell.delta = None
                    /\ i > 1 =>
                         LET prev == Figure(i - 1, Blocks[b].region, target)
                         IN  /\ cell.delta # None
                             /\ cell.delta.count = cur.count - prev.count
                             /\ cell.delta.pct =
                                    Round2(FracSub(cur.pct, prev.pct))

\* three years printed; the tracked count of Tbilisi goes from 2000 to 1000
\* and back, reported as -1000 and +1000, while the other regions differ
C10_ThreeYears ==
    /\ printed # None
    /\ printed.raises = ""
    /\ Len(election_geo_objs) = 3
    /\ PrintedCell(1, 1, 1).count = 2000
    /\ PrintedCell(1, 1, 2).delta.count = 0 - 1000
    /\ PrintedCell(1, 1, 3).delta.count = 1000
    /\ PrintedCell(2, 1, 3).delta.count # 1000

---------------------------------------------------------------------------
(* Properties of construction, loading and validation *)

\* every aggregate structure is as __init__ built it
AsConstructed ==
    /\ party_name_by_number = EmptyDict
    /\ vote_pcts_by_number = EmptyByRegion
    /\ vote_pcts_by_number_avg = EmptyByRegion
    /\ vote_counts_by_number = EmptyByRegion
    /\ vote_counts_by_number_sum = EmptyByRegion
    /\ vote_counts_by_number_sum_all = EmptyDict
    /\ party_numbers_pass_electoral_threshold = <<>>

\* C11: the construction of an instance of any type other than
\* 'proportional' ends with the constructor's NotImplementedError, in every
\* year, and nothing is ever loaded, aggregated or evaluated for it.
C11_OnlyProportional ==
    type # "proportional" =>
        /\ status = "NotImplementedError"
        /\ runs = 0
        /\ details = None
        /\ AsConstructed
        /\ min_votes_required = None
        /\ query = None

\* a majoritarian instance of 2024, the year without a majoritarian threshold
C11_Majoritarian2024 ==
    /\ year = 2024
    /\ type = "majoritarian"
    /\ status = "NotImplementedError"

\* the districts of the dataset that belong to a region
Bucket(r) == {i \in 1..Len(Items) : RegionOf(Items[i]) = r}

\* C12: a dataset of which some bucket (abroad, tbilisi, other) has no
\* district makes main() raise the validation error, and no aggregate and no
\* qualifying set exists for it.
C12_EmptyBucketRejected ==
    (Loaded /\ \E r \in Regions : Bucket(r) = {}) =>
        /\ status = "ValueError"
        /\ AsConstructed

\* C13: main() on an instance whose file name ends in neither '.json' nor
\* '.csv' loads nothing and does not end in an error that the missing load
\* causes.
C13_UnsupportedExtensionAccepted ==
    (runs > 0 /\ file \in OtherFiles) =>
        /\ details = None
        /\ status # "TypeError"

\* C15: when main() ended with the validation error, every aggregate
\* structure of the instance is still as the constructor built it.
C15_NoPartialFigures ==
    status = "ValueError" => AsConstructed

\* a validation error for a dataset in which every region has districts, two
\* of the Tbilisi districts disagreeing on their subjects
C15_DisagreeingDistricts ==
    /\ status = "ValueError"
    /\ runs = 1
    /\ \A r \in Regions : GetDetailsForRegion(Items, year, r) # <<>>
    /\ \E i, j \in 1..Len(Items) :
          /\ RegionOf(Items[i]) = "tbilisi"
          /\ RegionOf(Items[j]) = "tbilisi"
          /\ SubjectNumbers(Items[i]) # SubjectNumbers(Items[j])

---------------------------------------------------------------------------
(* Properties of repeated calls of main() *)

\* the two query results are the same value
SameResult(a, b) ==
    IF Raises(a) \/ Raises(b) THEN a = b
    ELSE IF DOMAIN a.value = {"num", "den"} /\ DOMAIN b.value = {"num", "den"}
    THEN FracEq(a.value, b.value)
    ELSE a.value = b.value

\* C16: a second main() on an instance whose first main() completed leaves
\* every per-region sum, every per-region average, every combined total and
\* the qualifying list as they were, and the 'others' sums of the two query
\* methods too.
C16_SecondRunSameResults ==
    [][(runs = 1 /\ runs' = 2 /\ status = "done") =>
          /\ status' = "done"
          /\ vote_counts_by_number_sum' = vote_counts_by_number_sum
          /\ vote_counts_by_number_sum_all' = vote_counts_by_number_sum_all
          /\ party_numbers_pass_electoral_threshold' =
                 party_numbers_pass_electoral_threshold
          /\ \A r \in Regions :
                /\ DOMAIN vote_pcts_by_number_avg'[r] =
                       DOMAIN vote_pcts_by_number_avg[r]
                /\ \A n \in DOMAIN vote_pcts_by_number_avg[r] :
                       FracEq(vote_pcts_by_number_avg'[r][n],
                              vote_pcts_by_number_avg[r][n])
                /\ SameResult(
                       get_votes_by_number_count_sum_pass(Self, r, "others")',
                       get_votes_by_number_count_sum_pass(Self, r, "others"))
                /\ SameResult(
                       get_votes_by_number_pct_avg_pass(Self, r, "others")',
                       get_votes_by_number_pct_avg_pass(Self, r, "others"))
      ]_vars

---------------------------------------------------------------------------
(* convert.py: the JSON files of 2020 and 2024 written as CSV files.  A    *)
(* district name is the sequence of its '|'-separated parts, a CSV row the *)
(* sequence of its cells, a cell the sequence of the pieces of its         *)
(* f-string.                                                               *)

\* number_map_2024, the entries of the district numbers that occur
number_map_2024 == [n \in {"01"} |-> "mtatsminda"]

\* the first cell of the header row
HEADER == "olqi - subieqti"

\* "Maj" in name
ContainsMaj(name) == \E i \in 1..Len(name) : name[i] \in {"Maj. olqi 1"}

\* f"{votes} ({percent}%)"
VotesCell(votes, percent) == <<votes, " (", percent, "%)">>

\* the dict _ of lines 110-112 (138-140): the cell of each subject number
RECURSIVE CellsByNumber(_, _, _)
CellsByNumber(d, subjects, field) ==
    IF subjects = <<>> THEN Return(d)
    ELSE IF field \notin DOMAIN subjects[1] THEN Raise("KeyError")
    ELSE CellsByNumber(
             Put(d, subjects[1].number,
                 VotesCell(subjects[1][field], subjects[1].percent)),
             Tail(subjects), field)

\* lines 113-114 (141-142): row += [_[number]] for each number of the header
RECURSIVE ExtendRow(_, _, _)
ExtendRow(cur, cells, numbers) ==
    IF numbers = <<>> THEN [row |-> cur, raises |-> ""]
    ELSE IF numbers[1] \notin DOMAIN cells
    THEN [row |-> cur, raises |-> "KeyError"]
    ELSE ExtendRow(Append(cur, cells[numbers[1]]), cells, Tail(numbers))

\* the global name row: <<>> while it is unbound, <<r>> once it is bound to
\* the list r
Unbound == <<>>

Bound(r) == <<r>>

\* lines 100-109 of the 2020 block and 127-137 of the 2024 block: the
\* name row when the cells are about to be added, cur being its state
\* before.  The 2024 block assigns row in the else branch of the name only
StartRow(y, item, cur) ==
    LET name == IF ContainsMaj(item.name) THEN <<"maj.olqi">>
                ELSE IF Len(item.name) > 1 THEN <<item.name[1]>>
                ELSE item.name
    IN  IF y = 2020
        THEN IF int(item.number) = 0 THEN Return(Bound(<< <<name>> >>))
             ELSE Return(Bound(<< <<item.number, ". ", name>> >>))
        ELSE IF ContainsMaj(item.name) \/ Len(item.name) > 1 THEN Return(cur)
        ELSE IF int(item.number) = 0 THEN Return(Bound(<< <<name>> >>))
        ELSE IF item.number \notin DOMAIN number_map_2024 THEN Raise("KeyError")
        ELSE Return(Bound(<< <<item.number, ".",
                               number_map_2024[item.number]>> >>))

\* the loop over data["items"]: the rows written, the name row at the end
\* and the exception that ended the loop, if any
RECURSIVE WriteRows(_, _, _, _, _)
WriteRows(y, items, numbers, out, cur) ==
    IF items = <<>> THEN [rows |-> out, row |-> cur, raises |-> ""]
    ELSE LET start == StartRow(y, items[1], cur)
             cells == CellsByNumber(EmptyDict, items[1].subjects,
                                    IF y = 2020 THEN "vote" ELSE "votes")
             full == ExtendRow(start.value[1], cells.value, numbers)
         IN  IF Raises(start)
             THEN [rows |-> out, row |-> cur, raises |-> start.raises]
             ELSE IF Raises(cells)
             THEN [rows |-> out, row |-> start.value, raises |-> cells.raises]
             ELSE IF start.value = Unbound
             THEN [rows |-> out, row |-> Unbound, raises |-> "NameError"]
             ELSE IF full.raises # ""
             THEN [rows |-> out, row |-> Bound(full.row), raises |-> full.raises]
             ELSE WriteRows(y, Tail(items), numbers, Append(out, full.row),
                            Bound(full.row))

\* one block of the script: the CSV file of year y written from data
ConvertBlock(y, data, cur) ==
    IF data.items = <<>>
    THEN [rows |-> <<>>, row |-> cur, raises |-> "IndexError"]
    ELSE LET numbers == PartyNumbers(data.items[1])
         IN  WriteRows(y, data.items, numbers, << <<HEADER>> \o numbers >>, cur)

\* the district names and numbers of the files converted
ConvertNames ==
    { <<"tbilisi">>, <<"sazgvargareti", "Abroad">>, <<"Maj. olqi 1">> }

ConvertNumbers == {"0", "01"}

\* the district at position pos of a file of year y: two subjects, in an
\* order and with votes that differ from district to district
ConvertItem(y, pos, name, number) ==
    LET e41 == <<"41", 1000 + pos, 4000 + pos>>
        e5 == <<"5", 2000 + pos, 5000 + pos>>
        es == IF pos % 2 = 1 THEN <<e41, e5>> ELSE <<e5, e41>>
    IN  [name |-> name, number |-> number,
         subjects |-> [j \in 1..2 |-> SubjectRecord(y, es[j])]]

ConvertDatasets(y) ==
    UNION { { [items |-> [i \in 1..n |-> ConvertItem(y, i, f[i][1], f[i][2])]] :
                f \in [1..n -> ConvertNames \X ConvertNumbers] } :
            n \in 1..MaxItems }

InitConvert ==
    /\ IsSelf(NoElectionGeo)
    /\ runs = 0
    /\ query = None
    /\ threshold_in = None
    /\ threshold_out = None
    /\ election_geo_objs = <<>>
    /\ printed = None
    /\ convert_pc = "2020"
    /\ \E d2020 \in ConvertDatasets(2020), d2024 \in ConvertDatasets(2024) :
          convert_data = (2020 :> d2020 @@ 2024 :> d2024)
    /\ convert_row = Unbound
    /\ convert_csv = EmptyDict

\* lines 92-115: 2020.prop.json written as 2020.prop.csv
Convert2020 ==
    /\ convert_pc = "2020"
    /\ LET b == ConvertBlock(2020, convert_data[2020], convert_row)
       IN  /\ convert_csv' = Put(convert_csv, 2020, b.rows)
           /\ convert_row' = b.row
           /\ convert_pc' = IF b.raises = "" THEN "2024" ELSE b.raises
    /\ UNCHANGED convert_data
    /\ UNCHANGED main_vars

\* lines 119-143: 2024.prop.json written as 2024.prop.csv
Convert2024 ==
    /\ convert_pc = "2024"
    /\ LET b == ConvertBlock(2024, convert_data[2024], convert_row)
       IN  /\ convert_csv' = Put(convert_csv, 2024, b.rows)
           /\ convert_row' = b.row
           /\ convert_pc' = IF b.raises = "" THEN "done" ELSE b.raises
    /\ UNCHANGED convert_data
    /\ UNCHANGED main_vars

NextConvert == Convert2020 \/ Convert2024

SpecConvert == InitConvert /\ [][NextConvert]_vars

\* the block of year y has run to its end
Written(y) ==
    IF y = 2020 THEN convert_pc \in {"2024", "done"} ELSE convert_pc = "done"

\* a cell that holds votes and a percentage
IsVotesCell(c) == Len(c) = 4 /\ c[4] = "%)"

\* the votes cell of subject n of a district
ExpectedCell(item, n) ==
    VotesCell(ReportedVotes(item, n), Entry(item, n).percent)

\* C14: each of the two CSV files has, after its header of the subject
\* numbers in ascending numeric order, one row per district in the order of
\* the input, and every row is one label cell followed by the district's
\* cell of each subject number in the order of the header.
C14_OneRowPerDistrict ==
    \A y \in {2020, 2024} :
        Written(y) =>
            LET rows == convert_csv[y]
                items == convert_data[y].items
            IN  /\ Len(rows) = Len(items) + 1
                /\ rows[1][1] = HEADER
                /\ Len(rows[1]) = 1 + Cardinality(SubjectNumbers(items[1]))
                /\ {rows[1][j] : j \in 2..Len(rows[1])} = SubjectNumbers(items[1])
                /\ \A j, k \in 2..Len(rows[1]) :
                       j < k => int(rows[1][j]) < int(rows[1][k])
                /\ \A i \in 1..Len(items) :
                       /\ Len(rows[i + 1]) = Len(rows[1])
                       /\ ~IsVotesCell(rows[i + 1][1])
                       /\ \A j \in 2..Len(rows[1]) :
                              rows[i + 1][j] = ExpectedCell(items[i], rows[1][j])

====
